---- MODULE Spec2Model ----
(***************************************************************************)
(* Chappy chat backend: message, channel and DM addressing over one        *)
(* DynamoDB table keyed by (PK, SK).                                       *)
(*                                                                         *)
(* Strings.  A string is modelled by the list of its pieces between '#'    *)
(* characters, i.e. by the value of s.split("#"):                          *)
(*   "CHANNEL#general" is <<"CHANNEL", "general">>, "" is <<"">>,          *)
(*   "DM#" is <<"DM", "">>.  A missing attribute (undefined) is <<>>.      *)
(* Pieces are atoms; TokenOrder lists them in UTF-16 code-unit order, so   *)
(* that comparing two strings piece by piece is the comparison DynamoDB    *)
(* and JavaScript make on the joined strings (every piece character used   *)
(* in a key is greater than '#').                                          *)
(***************************************************************************)
EXTENDS Integers, Sequences, FiniteSets, TLC

(* ------------------------------ bounds -------------------------------- *)
\* Spec: reads and writes interleaved
MaxClock == 2       \* largest millisecond the clock reaches
MaxSends == 2       \* successful sends
MaxInitRows == 1    \* rows in the table before the first request
\* SpecSend: writes only
SendClock == 3
SendSends == 3
SendInitRows == 1
\* SpecRead: reads only
ReadInitRows == 3
\* SpecThread: sends and lists of two threads interleaved
ThreadClock == 2
ThreadSends == 1
ThreadInitRows == 2
\* SpecDmSort: the DM thread rows of a table
DmSortInitRows == 3
\* SpecChat: the chat screen of one logged-in user
ChatSelects == 2
ChatSends == 1
ChatClock == 1
ChatInitRows == 1
\* SpecAuth: hours that pass after a login
AuthClock == 3
\* SpecPost: well-formed and malformed POSTs
PostClock == 1
PostSends == 1
PostInitRows == 1
\* SpecOlder: the older messages router
OlderClock == 2
OlderSends == 2
OlderInitRows == 1
\* SpecConcurrent: createMessage calls in flight at once
ConcurrentCalls == 2
ConcurrentClock == 2
ConcurrentInitRows == 1
\* SpecDms: rows in the table
DmsInitRows == 2
\* SpecDmId: letters in a username
MaxNameLen == 2

(* ------------------------------ strings ------------------------------- *)
Undefined == <<>>
EmptyStr == <<"">>

\* new Date().toISOString() for millisecond t
IsoTokens ==
  << "2024-01-01T00:00:00.001Z", "2024-01-01T00:00:00.002Z",
     "2024-01-01T00:00:00.003Z", "2024-01-01T00:00:00.004Z" >>

toISOString(t) == IsoTokens[t]

\* values randomUUID() can return
UUIDs == {"0a1b", "9f3e"}

\* every piece of the model, in code-unit order
TokenOrder ==
  << "", " ", "0a1b",
     "2024-01-01T00:00:00.001Z", "2024-01-01T00:00:00.002Z",
     "2024-01-01T00:00:00.003Z", "2024-01-01T00:00:00.004Z",
     "42", "7", "99", "9f3e", "Alice", "CHANNEL", "DM", "General", "Guest", "INFO",
     "Jack-skellington", "META", "MSG", "PROFILE",
     "TS", "USER", "admin", "alice", "bob", "channel", "dev-secret-change-me", "dev-secret-only", "dm", "general", "guz",
     "hi", "local-1", "local-2", "me", "naruto", "ops", "pass", "s3cret", "totoro", "x", "y", "yo" >>

Rank(tok) == CHOOSE i \in 1..Len(TokenOrder) : TokenOrder[i] = tok

\* pieces that contain the character "T"
IncludesT(tok) ==
  tok \in {IsoTokens[i] : i \in 1..Len(IsoTokens)} \cup {"TS", "META"}

MinOf(a, b) == IF a < b THEN a ELSE b
MaxOf(a, b) == IF a > b THEN a ELSE b

\* a < b on strings (code units)
StrLess(a, b) ==
  \E i \in 1..(MinOf(Len(a), Len(b)) + 1) :
     /\ \A j \in 1..(i - 1) : a[j] = b[j]
     /\ \/ i > Len(a) /\ i <= Len(b)
        \/ i <= Len(a) /\ i <= Len(b) /\ Rank(a[i]) < Rank(b[i])

\* s.startsWith(p + "#"), p given by its pieces
StartsWith(s, p) == Len(s) > Len(p) /\ SubSeq(s, 1, Len(p)) = p

\* s.slice((p + "#").length)
SliceAfter(s, p) == SubSeq(s, Len(p) + 1, Len(s))

\* String.prototype.toLowerCase on the request's kind
toLowerCase(s) ==
  [i \in 1..Len(s) |->
     CASE s[i] = "CHANNEL" -> "channel"
       [] s[i] = "DM" -> "dm"
       [] s[i] = "Alice" -> "alice"
       [] s[i] = "General" -> "general"
       [] OTHER -> s[i]]

\* a || b on strings
OrElse(a, b) == IF a # EmptyStr THEN a ELSE b

(* ------------------------------- rows --------------------------------- *)
\* an item with no attribute set
BlankRow ==
  [ PK |-> Undefined, SK |-> Undefined, pk |-> Undefined, sk |-> Undefined,
    kind |-> Undefined, channel |-> Undefined, dmId |-> Undefined,
    author |-> Undefined, sender |-> Undefined, username |-> Undefined,
    user |-> Undefined, text |-> Undefined, message |-> Undefined,
    createdAt |-> Undefined, id |-> Undefined, name |-> Undefined,
    isLocked |-> "undefined", userId |-> Undefined, password |-> Undefined,
    accessLevel |-> Undefined, members |-> <<>>, userA |-> Undefined,
    userB |-> Undefined, lastMessageAt |-> Undefined, time |-> Undefined ]

readStr(obj, key) == IF obj[key] = Undefined THEN EmptyStr ELSE obj[key]

isNonEmpty(s) == ~(Len(s) = 1 /\ s[1] \in {"", " "})

readAuthor(obj) ==
  OrElse(readStr(obj, "author"),
    OrElse(readStr(obj, "sender"),
      OrElse(readStr(obj, "username"), readStr(obj, "user"))))

readMessageText(obj) == OrElse(readStr(obj, "text"), readStr(obj, "message"))

(* --------------------------- message routes --------------------------- *)
\* "HH:MM" of an ISO timestamp
shortTime(createdAt) ==
  IF Len(createdAt) = 1 /\ createdAt[1] \in {IsoTokens[i] : i \in 1..Len(IsoTokens)}
  THEN <<"00:00">> ELSE Undefined

\* the ISO timestamp inside "MSG#<iso>#<uuid>" or "TS#<iso>#<uuid>"
parseFromKey(s) ==
  IF Len(s) >= 2 /\ s[2] # "" /\ IncludesT(s[2]) THEN <<s[2]>> ELSE EmptyStr

\* kind, channel and dmId of a partition key, or kind "null"
classifyPk(PK) ==
  IF StartsWith(PK, <<"CHANNEL">>)
  THEN [kind |-> "channel", channel |-> SliceAfter(PK, <<"CHANNEL">>), dmId |-> Undefined]
  ELSE IF StartsWith(PK, <<"DM">>)
  THEN [kind |-> "dm", channel |-> Undefined, dmId |-> PK]
  ELSE IF StartsWith(PK, <<"MSG", "CHANNEL">>)
  THEN [kind |-> "channel", channel |-> SliceAfter(PK, <<"MSG", "CHANNEL">>), dmId |-> Undefined]
  ELSE IF StartsWith(PK, <<"MSG", "DM">>)
  THEN [kind |-> "dm", channel |-> Undefined, dmId |-> <<"DM">> \o SliceAfter(PK, <<"MSG", "DM">>)]
  ELSE [kind |-> "null", channel |-> Undefined, dmId |-> Undefined]

\* mapItemToMessage without the test that skips invalid or empty data
mapItemToMessageUnchecked(obj) ==
  LET PK == OrElse(readStr(obj, "PK"), readStr(obj, "pk"))
      SK == OrElse(readStr(obj, "SK"), readStr(obj, "sk"))
      createdAt0 == readStr(obj, "createdAt")
      createdAt == IF createdAt0 = EmptyStr /\ SK # EmptyStr
                   THEN parseFromKey(SK) ELSE createdAt0
      c == classifyPk(PK)
  IN << [ id |-> OrElse(readStr(obj, "id"), SK), kind |-> c.kind,
          channel |-> c.channel, dmId |-> c.dmId, author |-> readAuthor(obj),
          text |-> readMessageText(obj), createdAt |-> createdAt,
          sender |-> readAuthor(obj), time |-> shortTime(createdAt) ] >>

\* the ChatMessage of an item as a one-element list, <<>> for null
mapItemToMessage(obj) ==
  LET PK == OrElse(readStr(obj, "PK"), readStr(obj, "pk"))
      SK == OrElse(readStr(obj, "SK"), readStr(obj, "sk"))
      text == readMessageText(obj)
      author == readAuthor(obj)
      createdAt0 == readStr(obj, "createdAt")
      createdAt == IF createdAt0 = EmptyStr /\ SK # EmptyStr
                   THEN parseFromKey(SK) ELSE createdAt0
      id == OrElse(readStr(obj, "id"), SK)
      c == classifyPk(PK)
  IN IF c.kind = "null" \/ ~isNonEmpty(text) \/ ~isNonEmpty(author)
        \/ ~isNonEmpty(createdAt)
     THEN <<>>
     ELSE << [ id |-> id, kind |-> c.kind, channel |-> c.channel,
               dmId |-> c.dmId, author |-> author, text |-> text,
               createdAt |-> createdAt, sender |-> author,
               time |-> shortTime(createdAt) ] >>

\* items.map(mapItemToMessage).filter(x => !!x)
RECURSIVE mapItems(_)
mapItems(items) ==
  IF items = <<>> THEN <<>>
  ELSE mapItemToMessage(Head(items)) \o mapItems(Tail(items))

buildPk(kind, channel, dmId) ==
  IF kind = "channel" /\ channel \notin {Undefined, EmptyStr}
  THEN <<"CHANNEL">> \o channel
  ELSE IF kind = "dm" /\ dmId \notin {Undefined, EmptyStr}
  THEN dmId
  ELSE EmptyStr

\* sortBySK with ScanIndexForward: false
RECURSIVE sortBySKDescending(_)
sortBySKDescending(rows) ==
  IF rows = {} THEN <<>>
  ELSE LET first == CHOOSE r \in rows :
                      \A q \in rows \ {r} : StrLess(q.SK, r.SK)
       IN <<first>> \o sortBySKDescending(rows \ {first})

\* the items of one partition in ascending sort-key order
RECURSIVE sortBySK(_)
sortBySK(rows) ==
  IF rows = {} THEN <<>>
  ELSE LET first == CHOOSE r \in rows :
                      \A q \in rows \ {r} : StrLess(r.SK, q.SK)
       IN <<first>> \o sortBySK(rows \ {first})

take(seq, n) == SubSeq(seq, 1, MinOf(n, Len(seq)))

\* QueryCommand: PK = :pk AND begins_with(SK, :skpref), ascending, Limit
query(tbl, pk, skpref, limit) ==
  take(sortBySK({r \in tbl : r.PK = pk /\ StartsWith(r.SK, skpref)}), limit)

\* the attributes a ProjectionExpression keeps
project(obj, attrs) ==
  [k \in DOMAIN obj |-> IF k \in attrs THEN obj[k] ELSE BlankRow[k]]

\* msgs.sort((a, b) => a.createdAt.localeCompare(b.createdAt)), stable
RECURSIVE insertByCreatedAt(_, _)
insertByCreatedAt(m, sorted) ==
  IF sorted = <<>> THEN <<m>>
  ELSE IF StrLess(m.createdAt, Head(sorted).createdAt)
  THEN <<m>> \o sorted
  ELSE <<Head(sorted)>> \o insertByCreatedAt(m, Tail(sorted))

\* the messages left in the order of the scan
keepScanOrder(msgs) == msgs

RECURSIVE sortByCreatedAt(_)
sortByCreatedAt(msgs) ==
  IF msgs = <<>> THEN <<>>
  ELSE insertByCreatedAt(msgs[Len(msgs)],
                         sortByCreatedAt(SubSeq(msgs, 1, Len(msgs) - 1)))

MessageScanAttrs == {"PK", "SK", "text", "author", "createdAt", "id", "pk", "sk"}

\* Pattern B partition key of a Pattern A key
expectedPkB(kind, key) ==
  IF kind = "channel"
  THEN <<"MSG", "CHANNEL">> \o SliceAfter(key, <<"CHANNEL">>)
  ELSE <<"MSG">> \o key

\* the rows the scan fallback keeps; they share one partition, so the scan
\* delivers them in sort-key order
scanFiltered(tbl, kind, key) ==
  sortBySK({project(r, MessageScanAttrs) : r \in
            {r \in tbl : OrElse(readStr(r, "PK"), readStr(r, "pk"))
                           = expectedPkB(kind, key)}})

\* fetchMessages without the Pattern B scan
fetchMessagesNoFallback(tbl, kind, key, limit) ==
  mapItems(query(tbl, key, <<"MSG">>, limit))

\* whether fetchMessages goes on to the Pattern B scan: msgs.length > 0 is
\* tested after the query's items are mapped and the nulls filtered out
scanIssued(tbl, key, limit) ==
  ~(Len(mapItems(query(tbl, key, <<"MSG">>, limit))) > 0)

fetchMessages(tbl, kind, key, limit) ==
  LET msgs == mapItems(query(tbl, key, <<"MSG">>, limit))
  IN IF ~scanIssued(tbl, key, limit) THEN msgs
     ELSE take(sortByCreatedAt(mapItems(scanFiltered(tbl, kind, key))), limit)

\* messageItem with the random part of the sort key before the timestamp
messageItemUuidFirst(kind, channel, dmId, author, text, now, uuid) ==
  [ BlankRow EXCEPT
      !.PK = buildPk(kind, channel, dmId),
      !.SK = <<"MSG", uuid, toISOString(now)>>,
      !.kind = <<kind>>,
      !.channel = IF kind = "channel" THEN channel ELSE Undefined,
      !.dmId = IF kind = "dm" THEN dmId ELSE Undefined,
      !.author = author, !.text = text,
      !.createdAt = <<toISOString(now)>>,
      !.id = <<"MSG", uuid, toISOString(now)>> ]

\* the item createMessage puts
messageItem(kind, channel, dmId, author, text, now, uuid) ==
  LET sk == <<"MSG", toISOString(now), uuid>>
  IN [ BlankRow EXCEPT
         !.PK = buildPk(kind, channel, dmId), !.SK = sk,
         !.kind = <<kind>>,
         !.channel = IF kind = "channel" THEN channel ELSE Undefined,
         !.dmId = IF kind = "dm" THEN dmId ELSE Undefined,
         !.author = author, !.text = text,
         !.createdAt = <<toISOString(now)>>, !.id = sk ]

\* ConditionExpression attribute_not_exists(PK) AND attribute_not_exists(SK)
putAllowed(tbl, item) == ~\E r \in tbl : r.PK = item.PK /\ r.SK = item.SK

\* the ChatMessage createMessage returns
savedMessage(kind, channel, dmId, author, text, now, uuid) ==
  [ id |-> <<"MSG", toISOString(now), uuid>>, kind |-> kind,
    channel |-> channel, dmId |-> dmId, author |-> author, text |-> text,
    createdAt |-> <<toISOString(now)>>, sender |-> author,
    time |-> shortTime(<<toISOString(now)>>) ]

\* Number(req.query.limit): a request's limit is absent, not a number
\* (NaN) or an integer; 0 stands for NaN, which || treats like 0
LimitDefault == 50
LimitMax == 200
LimitMin == 1
Number(requested) == IF requested.numeric THEN requested.n ELSE 0

\* Math.max(1, Math.min(200, Number(req.query.limit) || 50))
effectiveLimit(requested) ==
  LET n == Number(requested)
      orDefault == IF n = 0 THEN LimitDefault ELSE n
  IN MaxOf(LimitMin, MinOf(LimitMax, orDefault))

(* --------------------------- channel routes --------------------------- *)
readBool(obj, key) == obj[key] = "true"

\* the first of the attributes that is a string, else ""
getStrFromKeys(obj, k1, k2) ==
  IF obj[k1] # Undefined THEN obj[k1]
  ELSE IF obj[k2] # Undefined THEN obj[k2] ELSE EmptyStr

isChannelRow(obj) ==
  LET PKv == getStrFromKeys(obj, "PK", "pk")
      SKv == getStrFromKeys(obj, "SK", "sk")
  IN \/ PKv = <<"CHANNEL">> /\ StartsWith(SKv, <<"CHANNEL">>)
     \/ StartsWith(PKv, <<"CHANNEL">>) /\ SKv = <<"META", "INFO">>

\* { name, isLocked } of a channel row
channelMeta(obj) ==
  LET PKv == getStrFromKeys(obj, "PK", "pk")
      SKv == getStrFromKeys(obj, "SK", "sk")
      name0 == readStr(obj, "name")
      name == IF name0 # EmptyStr THEN name0
              ELSE IF StartsWith(PKv, <<"CHANNEL">>) THEN SliceAfter(PKv, <<"CHANNEL">>)
              ELSE IF StartsWith(SKv, <<"CHANNEL">>) THEN SliceAfter(SKv, <<"CHANNEL">>)
              ELSE EmptyStr
  IN [name |-> name, isLocked |-> readBool(obj, "isLocked")]

ChannelScanAttrs == {"PK", "SK", "name", "isLocked", "pk", "sk"}

\* mergeByName where a later row replaces the flag of an earlier one
RECURSIVE mergeByNameLastWins(_, _)
mergeByNameLastWins(rawItems, byName) ==
  IF rawItems = <<>> THEN byName
  ELSE LET item == Head(rawItems)
           at == {i \in 1..Len(byName) : byName[i].name = item.name}
       IN IF item.name = EmptyStr THEN mergeByNameLastWins(Tail(rawItems), byName)
          ELSE IF at # {}
          THEN mergeByNameLastWins(Tail(rawItems),
                 [i \in 1..Len(byName) |-> IF i \in at THEN item ELSE byName[i]])
          ELSE mergeByNameLastWins(Tail(rawItems), Append(byName, item))

\* the Map byName after the loop over rawItems, as a list in insertion order
RECURSIVE mergeByName(_, _)
mergeByName(rawItems, byName) ==
  IF rawItems = <<>> THEN byName
  ELSE LET item == Head(rawItems)
           at == {i \in 1..Len(byName) : byName[i].name = item.name}
       IN IF item.name = EmptyStr THEN mergeByName(Tail(rawItems), byName)
          ELSE IF at # {}
          THEN mergeByName(Tail(rawItems),
                 [i \in 1..Len(byName) |->
                    IF i \in at
                    THEN [name |-> item.name,
                          isLocked |-> byName[i].isLocked \/ item.isLocked]
                    ELSE byName[i]])
          ELSE mergeByName(Tail(rawItems), Append(byName, item))

\* items.sort((a, b) => a.name.localeCompare(b.name)), stable
RECURSIVE insertByName(_, _)
insertByName(m, sorted) ==
  IF sorted = <<>> THEN <<m>>
  ELSE IF StrLess(m.name, Head(sorted).name)
  THEN <<m>> \o sorted
  ELSE <<Head(sorted)>> \o insertByName(m, Tail(sorted))

RECURSIVE sortByName(_)
sortByName(items) ==
  IF items = <<>> THEN <<>>
  ELSE insertByName(items[Len(items)],
                    sortByName(SubSeq(items, 1, Len(items) - 1)))

SelectSeq2(seq, keep) ==
  LET F[i \in 0..Len(seq)] ==
        IF i = 0 THEN <<>>
        ELSE IF seq[i] \in keep THEN Append(F[i - 1], seq[i]) ELSE F[i - 1]
  IN F[Len(seq)]

\* scanChannelMetas on the items of a scan, in the order the scan delivers
scanChannelMetas(rows, showLocked) ==
  LET channelRows == SelectSeq2(rows, {rows[i] : i \in
                        {i \in 1..Len(rows) : isChannelRow(rows[i])}})
      rawItems == [i \in 1..Len(channelRows) |-> channelMeta(channelRows[i])]
      items == mergeByName(rawItems, <<>>)
      shown == IF showLocked THEN items
               ELSE SelectSeq2(items, {items[i] : i \in
                        {i \in 1..Len(items) : items[i].isLocked # TRUE}})
  IN sortByName(shown)

\* the orders in which a scan can deliver a set of items
RECURSIVE scanOrders(_)
scanOrders(rows) ==
  IF rows = {} THEN {<<>>}
  ELSE UNION {{<<r>> \o rest : rest \in scanOrders(rows \ {r})} : r \in rows}

(* ------------------------------- state -------------------------------- *)
VARIABLES
  table,   \* the items of the DynamoDB table, one per (PK, SK)
  clock,   \* the last millisecond new Date() returned
  sent,    \* history: the keys of the items createMessage stored, in order
  resp,    \* history: the last request and its response
  calls,   \* the createMessage calls of requests handled concurrently
  env,     \* process.env of the server
  active,  \* ChatApp: the selected chat, <<>> for null
  messages,\* ChatApp: the displayed messages
  loads    \* ChatApp: the runs of the loadMessages effect not yet finished

client == <<active, messages, loads>>
vars == <<table, clock, sent, resp, calls, env, active, messages, loads>>

\* a server started with JWT_SECRET set, and a chat screen not yet mounted
ConfiguredEnv == [JWT_SECRET |-> <<"s3cret">>]
NoClient ==
  /\ env = ConfiguredEnv
  /\ active = <<>>
  /\ messages = <<>>
  /\ loads = <<>>

Iso1 == IsoTokens[1]
Iso2 == IsoTokens[2]

\* rows written before this server version: legacy (Pattern B) messages,
\* Pattern A messages, channel metadata of both types
LegacyGeneralA ==
  [BlankRow EXCEPT !.PK = <<"MSG", "CHANNEL", "general">>,
     !.SK = <<"TS", Iso2, "x">>, !.author = <<"alice">>, !.text = <<"hi">>]
LegacyGeneralB ==
  [BlankRow EXCEPT !.PK = <<"MSG", "CHANNEL", "general">>,
     !.SK = <<"TS", Iso2, "y">>, !.author = <<"bob">>, !.text = <<"yo">>,
     !.createdAt = <<Iso1>>]
LegacyGeneralC ==
  [BlankRow EXCEPT !.PK = <<"MSG", "CHANNEL", "general">>,
     !.SK = <<"TS", Iso1, "x">>, !.sender = <<"alice">>, !.message = <<"hi">>]
LegacyDm ==
  [BlankRow EXCEPT !.PK = <<"MSG", "DM", "alice", "bob">>,
     !.SK = <<"TS", Iso1, "x">>, !.author = <<"alice">>, !.text = <<"hi">>]
CurrentGeneral ==
  [BlankRow EXCEPT !.PK = <<"CHANNEL", "general">>,
     !.SK = <<"MSG", Iso1, "0a1b">>, !.kind = <<"channel">>,
     !.channel = <<"general">>, !.author = <<"bob">>, !.text = <<"yo">>,
     !.createdAt = <<Iso1>>, !.id = <<"MSG", Iso1, "0a1b">>]
CurrentGeneralNoText ==
  [BlankRow EXCEPT !.PK = <<"CHANNEL", "general">>,
     !.SK = <<"MSG", "0a1b">>, !.author = <<"bob">>]
CurrentOps ==
  [BlankRow EXCEPT !.PK = <<"CHANNEL", "ops">>,
     !.SK = <<"MSG", Iso1, "9f3e">>, !.sender = <<"alice">>,
     !.message = <<"hi">>]
MetaOpsA ==
  [BlankRow EXCEPT !.PK = <<"CHANNEL">>, !.SK = <<"CHANNEL", "ops">>,
     !.isLocked = "true"]
MetaOpsB ==
  [BlankRow EXCEPT !.PK = <<"CHANNEL", "ops">>, !.SK = <<"META", "INFO">>,
     !.name = <<"ops">>, !.isLocked = "false"]
MetaGeneralA ==
  [BlankRow EXCEPT !.PK = <<"CHANNEL">>, !.SK = <<"CHANNEL", "general">>,
     !.name = <<"general">>]
MetaGeneralB ==
  [BlankRow EXCEPT !.PK = <<"CHANNEL", "general">>, !.SK = <<"META", "INFO">>,
     !.isLocked = "true"]

\* DM thread rows of both types
DmMetaA ==
  [BlankRow EXCEPT !.PK = <<"DM">>, !.SK = <<"DM", "alice", "bob">>,
     !.lastMessageAt = <<Iso1>>]
DmMetaB ==
  [BlankRow EXCEPT !.PK = <<"DM", "bob", "x">>, !.SK = <<"META", "INFO">>,
     !.members = << <<"bob">>, <<"x">> >>]

DmMetaC ==
  [BlankRow EXCEPT !.PK = <<"DM">>, !.SK = <<"DM", "alice", "x">>]
DmMetaD ==
  [BlankRow EXCEPT !.PK = <<"DM">>, !.SK = <<"DM", "bob", "x">>,
     !.lastMessageAt = <<Iso2>>]

HistoricalRows ==
  { LegacyGeneralA, LegacyGeneralB, LegacyGeneralC, LegacyDm, CurrentGeneral,
    CurrentGeneralNoText, CurrentOps, MetaOpsA, MetaOpsB, MetaGeneralA,
    MetaGeneralB }

\* usernames a valid token can carry; "" is a request without a valid token
Users == {<<"alice">>}
Tokens == Users \cup {EmptyStr}

Channels == {<<"general">>, <<"ops">>}
DmIds == {<<"DM", "alice", "bob">>, <<"DM", "bob", "alice">>}

\* kind and address parameters of a request (body or query)
ChannelRequest(k, c) == [kind |-> k, channel |-> c, dmId |-> Undefined]
DmRequest(d) == [kind |-> <<"dm">>, channel |-> Undefined, dmId |-> d]
ValidRequests ==
  {ChannelRequest(<<"channel">>, c) : c \in Channels}
  \cup {DmRequest(d) : d \in DmIds}
Requests ==
  ValidRequests
  \cup { ChannelRequest(<<"CHANNEL">>, <<"general">>),
         ChannelRequest(<<"channel">>, Undefined),
         DmRequest(<<"alice", "bob">>),
         ChannelRequest(Undefined, Undefined) }

Texts == {<<"hi">>, <<" ">>}

NoLimit == [given |-> FALSE, numeric |-> FALSE, n |-> 0]
SmallLimit == [given |-> TRUE, numeric |-> TRUE, n |-> 1]
LimitRequests ==
  {NoLimit, [given |-> TRUE, numeric |-> FALSE, n |-> 0]}
  \cup {[given |-> TRUE, numeric |-> TRUE, n |-> k] : k \in {-1, 0, 1, 2, 201}}

NoResp ==
  [ op |-> "none", token |-> EmptyStr, status |-> 0, kind |-> "",
    key |-> EmptyStr, requested |-> NoLimit, limit |-> 0,
    messages |-> <<>>, channels |-> <<>>, puts |-> 0, conflict |-> FALSE,
    scanned |-> FALSE, req |-> ChannelRequest(Undefined, Undefined),
    text |-> Undefined, dms |-> <<>> ]

(* ------------------------------ requests ------------------------------ *)
\* a request parameter as readFromBody / String(req.query.x || "") read it
param(v) == IF v = Undefined THEN EmptyStr ELSE v

Reply(op, tok, status) ==
  [NoResp EXCEPT !.op = op, !.token = tok, !.status = status]

\* the reply to a POST, with the body it answered
PostReply(op, tok, req, textIn, status) ==
  [Reply(op, tok, status) EXCEPT !.req = req, !.text = textIn]

\* createMessage with a put that has no condition: the item replaces the
\* one stored under its key
CreateAndReplyOverwriting(op, tok, req, textIn, kind, channel, dmId, author, text, B) ==
  \E now \in MaxOf(clock, 1)..B.clock, uuid \in UUIDs :
    LET item == messageItem(kind, channel, dmId, author, text, now, uuid)
    IN /\ clock' = now
       /\ UNCHANGED <<calls, env, client>>
       /\ Len(sent) < B.sends
       /\ table' = {r \in table : ~(r.PK = item.PK /\ r.SK = item.SK)} \cup {item}
       /\ sent' = Append(sent, [PK |-> item.PK, SK |-> item.SK])
       /\ resp' = [PostReply(op, tok, req, textIn, 201) EXCEPT
                     !.kind = <<kind>>, !.key = item.PK, !.puts = 1,
                     !.messages = <<savedMessage(kind, channel, dmId,
                                       author, text, now, uuid)>>]

\* createMessage called by a POST handler: one conditional put; a failed
\* condition throws and the handler's catch answers 500
CreateAndReply(op, tok, req, textIn, kind, channel, dmId, author, text, B) ==
  \E now \in MaxOf(clock, 1)..B.clock, uuid \in UUIDs :
    LET item == messageItem(kind, channel, dmId, author, text, now, uuid)
        ok == putAllowed(table, item)
    IN /\ clock' = now
       /\ UNCHANGED <<calls, env, client>>
       /\ IF ok
          THEN /\ Len(sent) < B.sends
               /\ table' = table \cup {item}
               /\ sent' = Append(sent, [PK |-> item.PK, SK |-> item.SK])
               /\ resp' = [PostReply(op, tok, req, textIn, 201) EXCEPT
                             !.kind = <<kind>>, !.key = item.PK, !.puts = 1,
                             !.messages = <<savedMessage(kind, channel, dmId,
                                               author, text, now, uuid)>>]
          ELSE /\ UNCHANGED <<table, sent>>
               /\ resp' = [PostReply(op, tok, req, textIn, 500) EXCEPT
                             !.kind = <<kind>>, !.key = item.PK, !.puts = 1,
                             !.conflict = TRUE]

Reject(op, tok, req, textIn, status) ==
  /\ resp' = PostReply(op, tok, req, textIn, status)
  /\ UNCHANGED <<table, clock, sent, calls, env, client>>

\* POST /api/messages without the check of the text
PostMessageAnyText(tok, req, textIn, B) ==
  LET op == "POST /api/messages"
      kindRaw == toLowerCase(param(req.kind))
      channel == param(req.channel)
      dmId == param(req.dmId)
  IN IF tok = EmptyStr THEN Reject(op, tok, req, textIn, 401)
     ELSE IF kindRaw = <<"channel">> /\ isNonEmpty(channel)
     THEN CreateAndReply(op, tok, req, textIn, "channel", channel, Undefined,
                         tok, param(textIn), B)
     ELSE IF kindRaw = <<"dm">> /\ isNonEmpty(dmId) /\ StartsWith(dmId, <<"DM">>)
     THEN CreateAndReply(op, tok, req, textIn, "dm", Undefined, dmId, tok,
                         param(textIn), B)
     ELSE Reject(op, tok, req, textIn, 400)

\* POST /api/messages (requireAuth)
PostMessage(tok, req, textIn, B) ==
  LET op == "POST /api/messages"
      me == tok
      kindRaw == toLowerCase(param(req.kind))
      text == param(textIn)
      channel == param(req.channel)
      dmId == param(req.dmId)
  IN IF tok = EmptyStr THEN Reject(op, tok, req, textIn, 401)
     ELSE IF ~isNonEmpty(me) THEN Reject(op, tok, req, textIn, 401)
     ELSE IF ~isNonEmpty(text) THEN Reject(op, tok, req, textIn, 400)
     ELSE IF kindRaw = <<"channel">>
     THEN IF ~isNonEmpty(channel) THEN Reject(op, tok, req, textIn, 400)
          ELSE CreateAndReply(op, tok, req, textIn, "channel", channel, Undefined, me, text, B)
     ELSE IF kindRaw = <<"dm">>
     THEN IF ~isNonEmpty(dmId) \/ ~StartsWith(dmId, <<"DM">>)
          THEN Reject(op, tok, req, textIn, 400)
          ELSE CreateAndReply(op, tok, req, textIn, "dm", Undefined, dmId, me, text, B)
     ELSE Reject(op, tok, req, textIn, 400)

\* POST /api/messages/public (no token needed)
PostPublic(tok, req, textIn, B) ==
  LET op == "POST /api/messages/public"
      kind == toLowerCase(param(req.kind))
      text == param(textIn)
      channel == param(req.channel)
  IN IF kind # <<"channel">> \/ channel # <<"general">>
     THEN Reject(op, tok, req, textIn, 400)
     ELSE IF ~isNonEmpty(text) THEN Reject(op, tok, req, textIn, 400)
     ELSE CreateAndReply(op, tok, req, textIn, "channel", channel, Undefined, <<"Guest">>, text, B)

\* a GET /api/messages that rewrites the Pattern B rows it scanned under the
\* Pattern A partition key
GetMessagesUpgrading(tok, req, requested) ==
  /\ resp' = [Reply("GET /api/messages", tok, 200) EXCEPT
                !.requested = requested, !.scanned = TRUE]
  /\ table' = {IF StartsWith(r.PK, <<"MSG">>) THEN [r EXCEPT !.PK = Tail(r.PK)]
               ELSE r : r \in table}
  /\ UNCHANGED <<clock, sent, calls, env, client>>

\* GET /api/messages (no token needed)
GetMessages(tok, req, requested) ==
  LET op == "GET /api/messages"
      kind == toLowerCase(param(req.kind))
      limit == effectiveLimit(requested)
      channel == param(req.channel)
      dmId == param(req.dmId)
      answer(k, key) ==
        [Reply(op, tok, 200) EXCEPT
           !.kind = <<k>>, !.key = key, !.requested = requested,
           !.limit = limit, !.messages = fetchMessages(table, k, key, limit),
           !.scanned = scanIssued(table, key, limit)]
  IN /\ UNCHANGED <<table, clock, sent, calls, env, client>>
     /\ resp' =
          IF kind = <<"channel">>
          THEN IF ~isNonEmpty(channel) THEN Reply(op, tok, 400)
               ELSE answer("channel", <<"CHANNEL">> \o channel)
          ELSE IF kind = <<"dm">>
          THEN IF ~isNonEmpty(dmId) \/ ~StartsWith(dmId, <<"DM">>)
               THEN Reply(op, tok, 400)
               ELSE answer("dm", dmId)
          ELSE Reply(op, tok, 400)

\* the channel rows of a scan; the other rows are dropped by the filter of
\* scanChannelMetas wherever the scan delivers them
ChannelItems(tbl) ==
  {project(r, ChannelScanAttrs) : r \in {r \in tbl : isChannelRow(r)}}

\* GET /api/channels (public)
GetChannels(tok) ==
  /\ \E rows \in scanOrders(ChannelItems(table)) :
       resp' = [Reply("GET /api/channels", tok, 200) EXCEPT
                  !.channels = scanChannelMetas(rows, FALSE)]
  /\ UNCHANGED <<table, clock, sent, calls, env, client>>

\* GET /api/channels/all (requireAuth)
GetChannelsAll(tok) ==
  /\ IF tok = EmptyStr
     THEN resp' = Reply("GET /api/channels/all", tok, 401)
     ELSE \E rows \in scanOrders(ChannelItems(table)) :
            resp' = [Reply("GET /api/channels/all", tok, 200) EXCEPT
                       !.channels = scanChannelMetas(rows, TRUE)]
  /\ UNCHANGED <<table, clock, sent, calls, env, client>>

(* ----------------------------- DM routes ------------------------------ *)
\* readStrArray: the strings of an array attribute, [] when it is no array
readStrArray(obj, key) == obj[key]

getDmIdFromKeys(obj, PKv, SKv) ==
  IF StartsWith(PKv, <<"DM">>) THEN PKv
  ELSE IF StartsWith(SKv, <<"DM">>) THEN SKv
  ELSE IF StartsWith(readStr(obj, "id"), <<"DM">>) THEN readStr(obj, "id")
  ELSE EmptyStr

\* .filter(Boolean) on the pieces of a split
truthyPiece(piece) == piece # ""

getMembers(obj, dmId) ==
  LET arr == readStrArray(obj, "members")
      pieces == SelectSeq(Tail(dmId), truthyPiece)
      a == readStr(obj, "userA")
      b == readStr(obj, "userB")
  IN IF Len(arr) >= 2 THEN arr
     ELSE IF StartsWith(dmId, <<"DM">>)
     THEN [i \in 1..Len(pieces) |-> <<pieces[i]>>]
     ELSE (IF a # EmptyStr THEN <<a>> ELSE <<>>)
          \o (IF b # EmptyStr THEN <<b>> ELSE <<>>)

isDmRow(obj) ==
  LET PKv == getStrFromKeys(obj, "PK", "pk")
      SKv == getStrFromKeys(obj, "SK", "sk")
  IN \/ PKv = <<"DM">> /\ StartsWith(SKv, <<"DM">>)
     \/ StartsWith(PKv, <<"DM">>) /\ SKv = <<"META", "INFO">>

dmThread(obj) ==
  LET PKv == getStrFromKeys(obj, "PK", "pk")
      SKv == getStrFromKeys(obj, "SK", "sk")
      id == getDmIdFromKeys(obj, PKv, SKv)
      last == readStr(obj, "lastMessageAt")
  IN [ id |-> id, members |-> getMembers(obj, id),
       lastMessageAt |-> IF last = EmptyStr THEN Undefined ELSE last ]

\* the comparator of items.sort is negative for (a, b)
dmBefore(a, b) ==
  IF a.lastMessageAt # Undefined /\ b.lastMessageAt # Undefined
  THEN StrLess(b.lastMessageAt, a.lastMessageAt)
  ELSE StrLess(a.id, b.id)

\* items.sort of a short array: each item is inserted into the sorted
\* prefix before the first item the comparator puts it in front of
RECURSIVE insertDm(_, _)
insertDm(m, sorted) ==
  IF sorted = <<>> THEN <<m>>
  ELSE IF dmBefore(m, Head(sorted)) THEN <<m>> \o sorted
  ELSE <<Head(sorted)>> \o insertDm(m, Tail(sorted))

RECURSIVE sortDms(_)
sortDms(items) ==
  IF items = <<>> THEN <<>>
  ELSE insertDm(items[Len(items)], sortDms(SubSeq(items, 1, Len(items) - 1)))

DmScanAttrs ==
  {"PK", "SK", "id", "members", "userA", "userB", "lastMessageAt", "pk", "sk"}

\* scanAllDmMetas on the rows of a scan
scanAllDmMetas(rows) ==
  LET dmRows == SelectSeq(rows, isDmRow)
  IN sortDms([i \in 1..Len(dmRows) |-> dmThread(dmRows[i])])

includes(arr, v) == \E i \in 1..Len(arr) : arr[i] = v

dmForClient(t, me) ==
  LET others == SelectSeq(t.members, LAMBDA m : m # me)
      otherUser == IF others # <<>> THEN others[1]
                   ELSE IF t.members # <<>> /\ t.members[1] # EmptyStr
                   THEN t.members[1] ELSE me
  IN [dmId |-> t.id, username |-> otherUser, lastMessageAt |-> t.lastMessageAt]

mapToClient(all, me) == [i \in 1..Len(all) |-> dmForClient(all[i], me)]

\* the list the route substitutes when the user has no DM thread
fallbackStaticDms(me) ==
  LET allNames == << <<"Jack-skellington">>, <<"totoro">>, <<"guz">>,
                     <<"naruto">>, <<"admin">> >>
      names == IF me # EmptyStr THEN SelectSeq(allNames, LAMBDA name : name # me)
               ELSE allNames
  IN [i \in 1..Len(names) |->
        [dmId |-> <<"DM", "me">> \o names[i], username |-> names[i],
         lastMessageAt |-> Undefined]]

\* the DM rows of a scan; the other rows are dropped by the filter of
\* scanAllDmMetas wherever the scan delivers them
DmItems(tbl) == {project(r, DmScanAttrs) : r \in {r \in tbl : isDmRow(r)}}

\* GET /api/dms (requireAuth)
GetDms(tok) ==
  /\ IF tok = EmptyStr
     THEN resp' = Reply("GET /api/dms", tok, 401)
     ELSE \E rows \in scanOrders(DmItems(table)) :
            LET me == tok
                all == scanAllDmMetas(rows)
                mine == SelectSeq(all, LAMBDA t : includes(t.members, me))
                dmsForClient == mapToClient(mine, me)
            IN resp' = [Reply("GET /api/dms", tok, 200) EXCEPT
                          !.dms = IF Len(dmsForClient) = 0
                                  THEN fallbackStaticDms(me)
                                  ELSE dmsForClient]
  /\ UNCHANGED <<table, clock, sent, calls, env, client>>

\* GET /api/dms/all (requireAuth)
GetDmsAll(tok) ==
  /\ IF tok = EmptyStr
     THEN resp' = Reply("GET /api/dms/all", tok, 401)
     ELSE \E rows \in scanOrders(DmItems(table)) :
            resp' = [Reply("GET /api/dms/all", tok, 200) EXCEPT
                       !.dms = scanAllDmMetas(rows)]
  /\ UNCHANGED <<table, clock, sent, calls, env, client>>

\* the bounds and inputs of a specification's requests
SpecBounds ==
  [clock |-> MaxClock, sends |-> MaxSends, tokens |-> Tokens,
   requests |-> Requests, texts |-> Texts, limits |-> {NoLimit, SmallLimit}]
SendBounds ==
  [clock |-> SendClock, sends |-> SendSends, tokens |-> Tokens,
   requests |-> ValidRequests \ {ChannelRequest(<<"channel">>, <<"ops">>)},
   texts |-> {<<"hi">>}, limits |-> {}]
ReadBounds ==
  [clock |-> 0, sends |-> 0, tokens |-> Tokens, requests |-> Requests,
   texts |-> {}, limits |-> LimitRequests]

Writes(B) ==
  \/ \E tok \in B.tokens, req \in B.requests, text \in B.texts :
       PostMessage(tok, req, text, B)
  \/ \E tok \in B.tokens, req \in B.requests, text \in B.texts :
       PostPublic(tok, req, text, B)

Reads(B) ==
  \/ \E tok \in B.tokens, req \in B.requests, requested \in B.limits :
       GetMessages(tok, req, requested)
  \/ \E tok \in B.tokens : GetChannels(tok)
  \/ \E tok \in B.tokens : GetChannelsAll(tok)

InitWith(pool, rows) ==
  /\ table \in {t \in SUBSET pool : Cardinality(t) <= rows}
  /\ clock = 0
  /\ sent = <<>>
  /\ calls = <<>>
  /\ NoClient
  /\ resp = NoResp

\* reads and writes interleaved
Init == InitWith(HistoricalRows, MaxInitRows)
Next == Writes(SpecBounds) \/ Reads(SpecBounds)
Spec == Init /\ [][Next]_vars

\* writes only, to the threads that hold messages already
InitSend ==
  InitWith({CurrentGeneral, CurrentGeneralNoText, LegacyGeneralA}, SendInitRows)
NextSend == Writes(SendBounds)
SpecSend == InitSend /\ [][NextSend]_vars

\* sends and lists of one channel and one DM thread, interleaved, on tables
\* that hold legacy and current messages of them
ThreadBounds ==
  [clock |-> ThreadClock, sends |-> ThreadSends, tokens |-> Tokens,
   requests |-> {ChannelRequest(<<"channel">>, <<"general">>),
                 DmRequest(<<"DM", "alice", "bob">>)},
   texts |-> {<<"hi">>}, limits |-> {NoLimit, SmallLimit}]
InitThread ==
  InitWith({LegacyGeneralA, LegacyGeneralB, LegacyDm, CurrentGeneral}, ThreadInitRows)
NextThread ==
  \/ Writes(ThreadBounds)
  \/ \E tok \in ThreadBounds.tokens, req \in ThreadBounds.requests,
        requested \in ThreadBounds.limits : GetMessages(tok, req, requested)
SpecThread == InitThread /\ [][NextThread]_vars

(* --------------------- the older messages router ---------------------- *)
\* the second messages router of the repository: an unconditional put, a
\* query of the whole partition, defaults filled in by mapItemToMessage
safeString(value) == IF value = Undefined THEN EmptyStr ELSE value

\* String.prototype.trim on the strings of the model
trim(s) == IF s = <<" ">> THEN EmptyStr ELSE s

\* `msg-${randomUUID()}`
randomMsgId(uuid) == IF uuid = "0a1b" THEN <<"msg-0a1b">> ELSE <<"msg-9f3e">>

\* the item the older createMessage puts
olderItem(kind, author, channel, dmId, text, now, uuid) ==
  LET createdAt == <<toISOString(now)>>
      sk == <<"MSG", toISOString(now), uuid>>
      conversationId == IF StartsWith(dmId, <<"DM">>) THEN dmId ELSE <<"DM">> \o dmId
  IN IF kind = "channel"
     THEN [ BlankRow EXCEPT
              !.PK = <<"CHANNEL">> \o channel, !.SK = sk, !.id = sk,
              !.kind = <<"channel">>, !.channel = channel, !.author = author,
              !.text = text, !.createdAt = createdAt ]
     ELSE [ BlankRow EXCEPT
              !.PK = conversationId, !.SK = sk, !.id = sk, !.kind = <<"dm">>,
              !.dmId = conversationId, !.author = author, !.text = text,
              !.createdAt = createdAt ]

\* PutCommand without a condition: the item replaces the one of its key
putOlder(tbl, item) ==
  {r \in tbl : ~(r.PK = item.PK /\ r.SK = item.SK)} \cup {item}

\* the ChatMessage the older createMessage returns
olderSaved(item) ==
  [ id |-> item.id, author |-> item.author, text |-> item.text,
    createdAt |-> item.createdAt, channel |-> item.channel, dmId |-> item.dmId ]

\* the older mapItemToMessage; now and uuid are what nowIso() and
\* randomUUID() return if it calls them
mapItemToMessageOlder(item, now, uuid) ==
  LET orUndefined(v) == IF v = EmptyStr THEN Undefined ELSE v
  IN [ id |-> OrElse(safeString(item.id),
                 OrElse(safeString(item.SK), randomMsgId(uuid))),
       author |-> OrElse(safeString(item.author), <<"unknown">>),
       text |-> safeString(item.text),
       createdAt |-> OrElse(safeString(item.createdAt),
                        OrElse(safeString(item.time), <<toISOString(now)>>)),
       channel |-> orUndefined(safeString(item.channel)),
       dmId |-> orUndefined(safeString(item.dmId)) ]

\* QueryCommand on the partition key alone, ascending
queryPartition(tbl, pk) == sortBySK({r \in tbl : r.PK = pk})

\* the older createMessage called by a POST handler
CreateOlder(op, tok, req, textIn, kind, author, channel, dmId, text) ==
  \E now \in MaxOf(clock, 1)..OlderClock, uuid \in UUIDs :
    LET item == olderItem(kind, author, channel, dmId, text, now, uuid)
    IN /\ Len(sent) < OlderSends
       /\ clock' = now
       /\ table' = putOlder(table, item)
       /\ sent' = Append(sent, [PK |-> item.PK, SK |-> item.SK])
       /\ resp' = [PostReply(op, tok, req, textIn, 201) EXCEPT
                     !.kind = <<kind>>, !.key = item.PK, !.puts = 1,
                     !.messages = <<olderSaved(item)>>]
       /\ UNCHANGED <<calls, env, client>>

\* older POST /api/messages (requireAuth)
PostMessageOlder(tok, req, textIn) ==
  LET op == "older POST /api/messages"
      kindRaw == safeString(req.kind)
      kind == IF kindRaw = <<"dm">> THEN "dm" ELSE "channel"
      text == trim(safeString(textIn))
      author == tok
      channelName == trim(safeString(req.channel))
      dmId == trim(safeString(req.dmId))
  IN IF tok = EmptyStr THEN Reject(op, tok, req, textIn, 401)
     ELSE IF text = EmptyStr THEN Reject(op, tok, req, textIn, 400)
     ELSE IF kind = "channel"
     THEN IF channelName = EmptyStr THEN Reject(op, tok, req, textIn, 400)
          ELSE CreateOlder(op, tok, req, textIn, "channel", author, channelName,
                           Undefined, text)
     ELSE IF dmId = EmptyStr THEN Reject(op, tok, req, textIn, 400)
          ELSE CreateOlder(op, tok, req, textIn, "dm", author, Undefined, dmId, text)

\* older POST /api/messages/public
PostPublicOlder(req, textIn) ==
  LET tok == EmptyStr
      op == "older POST /api/messages/public"
      channelName == trim(safeString(req.channel))
      text == trim(safeString(textIn))
  IN IF channelName = EmptyStr \/ text = EmptyStr
     THEN Reject(op, tok, req, textIn, 400)
     ELSE IF toLowerCase(channelName) # <<"general">>
     THEN Reject(op, tok, req, textIn, 403)
     ELSE CreateOlder(op, tok, req, textIn, "channel", <<"Guest">>, channelName,
                      Undefined, text)

\* older GET /api/messages: each item is mapped at the time the loop
\* reaches it
GetMessagesOlder(req) ==
  LET tok == EmptyStr
      op == "older GET /api/messages"
      kind == IF safeString(req.kind) = <<"dm">> THEN "dm" ELSE "channel"
      channelName == trim(safeString(req.channel))
      dmIdRaw == trim(safeString(req.dmId))
      conversationId == IF StartsWith(dmIdRaw, <<"DM">>) THEN dmIdRaw
                        ELSE <<"DM">> \o dmIdRaw
      primary == queryPartition(table, <<"CHANNEL">> \o channelName)
      items == IF kind = "dm" THEN queryPartition(table, conversationId)
               ELSE IF Len(primary) = 0
               THEN queryPartition(table, <<"MSG", "CHANNEL">> \o channelName)
               ELSE primary
      missing == IF kind = "dm" THEN dmIdRaw = EmptyStr ELSE channelName = EmptyStr
      key == IF kind = "dm" THEN conversationId ELSE <<"CHANNEL">> \o channelName
  IN /\ UNCHANGED <<table, sent, calls, env, client>>
     /\ IF missing
        THEN resp' = Reply(op, tok, 400) /\ UNCHANGED clock
        ELSE \E nows \in [1..Len(items) -> MaxOf(clock, 1)..OlderClock],
                uuid \in UUIDs :
               /\ \A i, j \in 1..Len(items) : i < j => nows[i] <= nows[j]
               /\ clock' = IF Len(items) = 0 THEN clock ELSE nows[Len(items)]
               /\ resp' = [Reply(op, tok, 200) EXCEPT
                             !.kind = <<kind>>, !.key = key,
                             !.messages = [i \in 1..Len(items) |->
                                mapItemToMessageOlder(items[i], nows[i], uuid)]]

\* one row of the table classified twice, by either router
ClassifyTwice(row) ==
  \E now1 \in MaxOf(clock, 1)..OlderClock, uuid1 \in UUIDs, uuid2 \in UUIDs :
    \E now2 \in now1..OlderClock :
      /\ clock' = now2
      /\ resp' = [ op |-> "mapItemToMessage", row |-> row,
                   first |-> mapItemToMessage(row),
                   second |-> mapItemToMessage(row),
                   olderFirst |-> mapItemToMessageOlder(row, now1, uuid1),
                   olderSecond |-> mapItemToMessageOlder(row, now2, uuid2) ]
      /\ UNCHANGED <<table, sent, calls, env, client>>

OlderRequests ==
  { ChannelRequest(<<"channel">>, <<"general">>),
    ChannelRequest(<<"channel">>, <<"General">>),
    ChannelRequest(<<"channel">>, <<"ops">>),
    ChannelRequest(Undefined, Undefined),
    DmRequest(<<"alice", "bob">>),
    DmRequest(Undefined) }
InitOlder == InitWith({LegacyGeneralA, CurrentGeneral}, OlderInitRows)
NextOlder ==
  \/ \E tok \in Tokens, req \in OlderRequests, text \in Texts :
       PostMessageOlder(tok, req, text)
  \/ \E req \in OlderRequests, text \in Texts : PostPublicOlder(req, text)
  \/ \E req \in OlderRequests : GetMessagesOlder(req)
  \/ \E row \in table : ClassifyTwice(row)
SpecOlder == InitOlder /\ [][NextOlder]_vars

(* ------------------------- concurrent requests ------------------------ *)
\* a createMessage call: "idle" before it starts, "put" between building the
\* item and the answer of the store, "done" after it
IdleCall == [pc |-> "idle", item |-> BlankRow, status |-> 0]

\* createMessage up to the await of the put: time, uuid, keys and item
BeginSend(c, req, author, text) ==
  /\ calls[c].pc = "idle"
  /\ \E now \in MaxOf(clock, 1)..ConcurrentClock, uuid \in UUIDs :
       /\ clock' = now
       /\ calls' = [calls EXCEPT ![c] =
            [ pc |-> "put", status |-> 0,
              item |-> messageItem(toLowerCase(req.kind)[1], req.channel,
                                   req.dmId, author, text, now, uuid) ]]
  /\ UNCHANGED <<table, sent, resp, env, client>>

\* the store decides the conditional put; createMessage returns the message
\* (201) or throws into the catch of the route (500)
PutSend(c) ==
  /\ calls[c].pc = "put"
  /\ IF putAllowed(table, calls[c].item)
     THEN /\ table' = table \cup {calls[c].item}
          /\ sent' = Append(sent, [PK |-> calls[c].item.PK, SK |-> calls[c].item.SK])
          /\ calls' = [calls EXCEPT ![c].pc = "done", ![c].status = 201]
     ELSE /\ UNCHANGED <<table, sent>>
          /\ calls' = [calls EXCEPT ![c].pc = "done", ![c].status = 500]
  /\ UNCHANGED <<clock, resp, env, client>>

InitConcurrent ==
  /\ table \in {t \in SUBSET {LegacyGeneralA, LegacyDm} :
                  Cardinality(t) <= ConcurrentInitRows}
  /\ clock = 0
  /\ sent = <<>>
  /\ resp = NoResp
  /\ calls = [c \in 1..ConcurrentCalls |-> IdleCall]
  /\ NoClient
NextConcurrent ==
  \/ \E c \in 1..ConcurrentCalls,
        req \in {ChannelRequest(<<"channel">>, <<"general">>),
                 DmRequest(<<"DM", "alice", "bob">>)},
        author \in Users \cup {<<"Guest">>} :
        /\ author = <<"Guest">> => req.channel = <<"general">>
        /\ BeginSend(c, req, author, <<"hi">>)
  \/ \E c \in 1..ConcurrentCalls : PutSend(c)
SpecConcurrent == InitConcurrent /\ [][NextConcurrent]_vars

(* --------------------------- the chat screen -------------------------- *)
\* ChatApp mounted for a logged-in user: username and token set, isGuest
\* false
ChatUsername == <<"alice">>
Chats ==
  { [scope |-> "channel", id |-> <<"general">>],
    [scope |-> "dm", id |-> <<"DM", "alice", "bob">>] }

\* `local-${Date.now()}`
localId(now) == IF now = 1 THEN <<"local-1">> ELSE <<"local-2">>

\* the Message the effect makes of a MessageDTO; of records the chat it was
\* loaded for
loadedMessage(m, chat) ==
  [ id |-> m.id,
    sender |-> IF m.sender \notin {Undefined, EmptyStr} THEN m.sender
               ELSE IF m.author \notin {Undefined, EmptyStr} THEN m.author
               ELSE <<"unknown">>,
    text |-> m.text,
    time |-> IF m.time # Undefined THEN m.time ELSE <<"00:00">>,
    of |-> chat, local |-> FALSE ]

\* the partition key GET /api/messages reads for a chat
chatKey(chat) ==
  IF chat.scope = "channel" THEN <<"CHANNEL">> \o chat.id ELSE chat.id

\* handleSelect: setActive; the effect's cleanup cancels the run of the
\* previous render and a new run of loadMessages sends its request
HandleSelect(chat) ==
  /\ Len(loads) < ChatSelects
  /\ active' = chat
  /\ loads' = Append([i \in 1..Len(loads) |-> [loads[i] EXCEPT !.cancelled = TRUE]],
                     [chat |-> chat, cancelled |-> FALSE, pc |-> "fetch", raw |-> <<>>])
  /\ UNCHANGED <<table, clock, sent, resp, calls, env, messages>>

\* the server answers the GET of a run of loadMessages
AnswerLoad(i) ==
  /\ loads[i].pc = "fetch"
  /\ loads' = [loads EXCEPT
       ![i].pc = "answered",
       ![i].raw = fetchMessages(table, loads[i].chat.scope, chatKey(loads[i].chat),
                                effectiveLimit(NoLimit))]
  /\ UNCHANGED <<table, clock, sent, resp, calls, env, active, messages>>

\* the await of fetchMessages returns: a cancelled run stops, the others
\* set the mapped messages
FinishLoad(i) ==
  /\ loads[i].pc = "answered"
  /\ loads' = [loads EXCEPT ![i].pc = "done"]
  /\ messages' =
       IF loads[i].cancelled THEN messages
       ELSE [j \in 1..Len(loads[i].raw) |->
               loadedMessage(loads[i].raw[j], loads[i].chat)]
  /\ UNCHANGED <<table, clock, sent, resp, calls, env, active>>

\* handleSend: the local message is appended, then the POST is sent; the
\* server builds the item and awaits the store (PutSend)
HandleSend(text) ==
  LET clean == trim(text)
  IN IF active = <<>> \/ clean = EmptyStr
     THEN UNCHANGED vars
     ELSE \E c \in 1..ChatSends, now \in MaxOf(clock, 1)..ChatClock, uuid \in UUIDs :
            /\ calls[c].pc = "idle"
            /\ clock' = now
            /\ messages' = Append(messages,
                 [ id |-> localId(now), sender |-> ChatUsername, text |-> clean,
                   time |-> <<"00:00">>, of |-> active, local |-> TRUE ])
            /\ calls' = [calls EXCEPT ![c] =
                 [ pc |-> "put", status |-> 0,
                   item |-> IF active.scope = "channel"
                            THEN messageItem("channel", active.id, Undefined,
                                             ChatUsername, clean, now, uuid)
                            ELSE messageItem("dm", Undefined, active.id,
                                             ChatUsername, clean, now, uuid) ]]
            /\ UNCHANGED <<table, sent, resp, env, active, loads>>

InitChat ==
  /\ table \in {t \in SUBSET {CurrentGeneral, LegacyDm} :
                  Cardinality(t) <= ChatInitRows}
  /\ clock = 0
  /\ sent = <<>>
  /\ resp = NoResp
  /\ calls = [c \in 1..ChatSends |-> IdleCall]
  /\ NoClient
NextChat ==
  \/ \E chat \in Chats : HandleSelect(chat)
  \/ \E i \in 1..Len(loads) : AnswerLoad(i)
  \/ \E i \in 1..Len(loads) : FinishLoad(i)
  \/ \E text \in Texts : HandleSend(text)
  \/ \E c \in 1..ChatSends : PutSend(c)
SpecChat == InitChat /\ [][NextChat]_vars

\* every read route, on tables that hold DM thread rows as well
DmsBounds ==
  [clock |-> 0, sends |-> 0, tokens |-> Tokens \cup {<<"Alice">>},
   requests |-> {ChannelRequest(<<"channel">>, <<"general">>),
                 DmRequest(<<"DM", "alice", "bob">>)},
   texts |-> {}, limits |-> {NoLimit, SmallLimit}]
InitDms ==
  InitWith({DmMetaA, DmMetaB, LegacyGeneralA, LegacyDm, CurrentGeneral, MetaOpsA},
           DmsInitRows)
NextDms ==
  \/ Reads(DmsBounds)
  \/ \E tok \in DmsBounds.tokens : GetDms(tok)
SpecDms == InitDms /\ [][NextDms]_vars

\* POSTs whose body can lack the text, the kind or the address
PostBounds ==
  [clock |-> PostClock, sends |-> PostSends, tokens |-> Tokens,
   requests |-> { ChannelRequest(<<"channel">>, <<"general">>),
                  ChannelRequest(<<"CHANNEL">>, Undefined),
                  ChannelRequest(<<"channel">>, <<" ">>),
                  ChannelRequest(Undefined, Undefined),
                  DmRequest(<<"DM", "alice", "bob">>),
                  DmRequest(Undefined),
                  DmRequest(EmptyStr) },
   texts |-> {<<"hi">>, <<" ">>, EmptyStr, Undefined}, limits |-> {}]
InitPost == InitWith({CurrentGeneral, LegacyGeneralA}, PostInitRows)
NextPost == Writes(PostBounds)
SpecPost == InitPost /\ [][NextPost]_vars

\* the two DM routes on tables of DM thread rows
DmSortTokens == {EmptyStr, <<"alice">>, <<"bob">>, <<"Alice">>}
InitDmSort == InitWith({DmMetaA, DmMetaB, DmMetaC, DmMetaD}, DmSortInitRows)
NextDmSort ==
  \/ \E tok \in DmSortTokens : GetDms(tok)
  \/ \E tok \in DmSortTokens : GetDmsAll(tok)
SpecDmSort == InitDmSort /\ [][NextDmSort]_vars

\* reads only, on the tables earlier versions can have left
InitRead == InitWith(HistoricalRows, ReadInitRows)
NextRead == Reads(ReadBounds)
SpecRead == InitRead /\ [][NextRead]_vars

(* ------------------------- DM thread identifier ------------------------ *)
\* Usernames here are sequences of UTF-16 code units, so that lower-casing
\* and comparison are computed and not tabulated: "A" 65, "B" 66, "a" 97,
\* "b" 98, "#" 35, "D" 68, "M" 77.
Letters == {65, 66, 97, 98}

RECURSIVE NamesUpTo(_)
NamesUpTo(n) ==
  IF n = 0 THEN {<<>>}
  ELSE NamesUpTo(n - 1)
       \cup {Append(w, c) : w \in {w \in NamesUpTo(n - 1) : Len(w) = n - 1},
                            c \in Letters}

Usernames == NamesUpTo(MaxNameLen)

\* String.prototype.toLowerCase on code units
lowerCaseUnits(w) ==
  [i \in 1..Len(w) |-> IF w[i] >= 65 /\ w[i] <= 90 THEN w[i] + 32 ELSE w[i]]

\* a < b on code-unit strings
unitsLess(a, b) ==
  \E i \in 1..(MinOf(Len(a), Len(b)) + 1) :
     /\ \A j \in 1..(i - 1) : a[j] = b[j]
     /\ \/ i > Len(a) /\ i <= Len(b)
        \/ i <= Len(a) /\ i <= Len(b) /\ a[i] < b[i]

\* `DM#${x}#${y}`
dmTemplate(x, y) == <<68, 77, 35>> \o x \o <<35>> \o y

\* Array.prototype.sort() of a two-element array of strings
sortPair(pair) ==
  IF unitsLess(pair[2], pair[1]) THEN <<pair[2], pair[1]>> ELSE pair

\* buildDmId of the server (routes/users.ts)
buildDmIdServer(a, b) ==
  LET p1 == lowerCaseUnits(a)
      p2 == lowerCaseUnits(b)
      sorted == sortPair(<<p1, p2>>)
  IN dmTemplate(sorted[1], sorted[2])

\* buildDmId of the client without the comparison
buildDmIdClientUnsorted(userA, userB) ==
  dmTemplate(lowerCaseUnits(userA), lowerCaseUnits(userB))

\* buildDmId of the client (ChatApp.tsx)
buildDmIdClient(userA, userB) ==
  LET a == lowerCaseUnits(userA)
      b == lowerCaseUnits(userB)
  IN IF unitsLess(a, b) THEN dmTemplate(a, b) ELSE dmTemplate(b, a)

\* both implementations applied to a pair of usernames, in both orders
BuildDmIds ==
  /\ resp.op = "usernames"
  /\ resp' = [ op |-> "buildDmId", a |-> resp.a, b |-> resp.b,
               server |-> buildDmIdServer(resp.a, resp.b),
               serverSwapped |-> buildDmIdServer(resp.b, resp.a),
               client |-> buildDmIdClient(resp.a, resp.b),
               clientSwapped |-> buildDmIdClient(resp.b, resp.a) ]
  /\ UNCHANGED <<table, clock, sent, calls, env, client>>

\* the pair of usernames the two functions are about to be called with
InitDmId ==
  /\ table = {}
  /\ clock = 0
  /\ sent = <<>>
  /\ calls = <<>>
  /\ NoClient
  /\ resp \in {[op |-> "usernames", a |-> a, b |-> b] : a \in Usernames, b \in Usernames}

NextDmId == BuildDmIds
SpecDmId == InitDmId /\ [][NextDmId]_vars

(* --------------------------- user identity ---------------------------- *)
\* a value is falsy when it is undefined or ""
falsy(v) == v \in {Undefined, EmptyStr}

\* findUserByUsername: the first user row of the scan with that name
isLoginUserRow(it, username) ==
  /\ it.PK = <<"USER">> \/ StartsWith(it.PK, <<"USER">>)
  /\ it.username = username \/ it.name = username

\* the userId POST /api/login signs into the token
loginUserId(raw, username) ==
  LET nameFromItem == IF raw.username # Undefined THEN raw.username ELSE raw.name
      pkUpper == raw.PK
      skUpper == raw.SK
      fromPk == IF ~falsy(pkUpper) /\ StartsWith(pkUpper, <<"USER">>)
                THEN SliceAfter(pkUpper, <<"USER">>) ELSE Undefined
      fromSk == IF ~falsy(skUpper) /\ StartsWith(skUpper, <<"USER">>)
                THEN SliceAfter(skUpper, <<"USER">>) ELSE Undefined
      userId == IF raw.userId # Undefined THEN raw.userId
                ELSE IF fromPk # Undefined THEN fromPk
                ELSE IF fromSk # Undefined THEN fromSk
                ELSE nameFromItem
  IN IF falsy(userId) THEN username ELSE userId

\* expiresIn: "2h", the clock of SpecAuth counting hours
TokenLifetime == 2

\* process.env.JWT_SECRET || <default>, as the login route and requireAuth
\* each read it
loginSecret == IF falsy(env.JWT_SECRET) THEN <<"dev-secret-only">> ELSE env.JWT_SECRET
authSecret ==
  IF falsy(env.JWT_SECRET) THEN <<"dev-secret-change-me">> ELSE env.JWT_SECRET

\* jwt.sign(payload, secret, {expiresIn}) and jwt.verify(token, secret)
jwtSign(payload, secret, now) ==
  [payload |-> payload, iat |-> now, exp |-> now + TokenLifetime, key |-> secret]
jwtVerify(token, secret, now) == token.key = secret /\ now < token.exp

LoginScanAttrs == {"PK", "SK", "username", "name", "password", "userId"}

\* POST /api/login on the rows of a scan
PostLogin(username, password) ==
  /\ \E rows \in scanOrders({project(r, LoginScanAttrs) : r \in table}) :
       LET found == {i \in 1..Len(rows) : isLoginUserRow(rows[i], username)}
           raw == rows[CHOOSE i \in found : \A j \in found : i <= j]
           nameFromItem == IF raw.username # Undefined THEN raw.username
                           ELSE raw.name
           denied == [op |-> "POST /api/login", status |-> 401,
                      sub |-> Undefined, username |-> Undefined,
                      issued |-> Undefined]
       IN resp' =
            IF found = {} THEN denied
            ELSE IF falsy(raw.password) \/ falsy(nameFromItem) THEN denied
            ELSE IF password # raw.password THEN denied
            ELSE [op |-> "POST /api/login", status |-> 200,
                  sub |-> loginUserId(raw, username),
                  username |-> nameFromItem,
                  issued |-> jwtSign([sub |-> loginUserId(raw, username),
                                      username |-> nameFromItem],
                                     loginSecret, clock)]
  /\ UNCHANGED <<table, clock, sent, calls, env, client>>

\* the userId listAllUsers makes from the keys, <<>> for null
getUserIdFromKeys(pk, sk) ==
  IF falsy(pk) \/ falsy(sk) THEN Undefined
  ELSE IF StartsWith(pk, <<"USER">>) /\ StartsWith(sk, <<"PROFILE">>)
  THEN SliceAfter(pk, <<"USER">>)
  ELSE IF pk = <<"USER">> /\ StartsWith(sk, <<"USER">>)
  THEN SliceAfter(sk, <<"USER">>)
  ELSE IF StartsWith(sk, <<"USER">>) THEN SliceAfter(sk, <<"USER">>)
  ELSE IF StartsWith(pk, <<"USER">>) THEN SliceAfter(pk, <<"USER">>)
  ELSE sk

UserScanAttrs == {"PK", "SK", "username", "accessLevel"}

\* the UserItem of a scanned row as a one-element list, <<>> when skipped
userItem(it) ==
  LET pk == readStr(it, "PK")
      sk == readStr(it, "SK")
      username == readStr(it, IF it.username # Undefined THEN "username" ELSE "name")
      userId == getUserIdFromKeys(pk, sk)
  IN IF ~(pk = <<"USER">> \/ StartsWith(pk, <<"USER">>)) THEN <<>>
     ELSE IF falsy(username) THEN <<>>
     ELSE IF falsy(userId) THEN <<>>
     ELSE << [ userId |-> userId, username |-> username,
               accessLevel |-> IF it.accessLevel # Undefined
                               THEN it.accessLevel ELSE <<"user">>,
               pk |-> pk, sk |-> sk ] >>

RECURSIVE listAllUsers(_)
listAllUsers(rows) ==
  IF rows = <<>> THEN <<>>
  ELSE userItem(Head(rows)) \o listAllUsers(Tail(rows))

\* listAllUsers on the rows of a scan
ListUsers ==
  /\ \E rows \in scanOrders({project(r, UserScanAttrs) : r \in table}) :
       resp' = [op |-> "listAllUsers", status |-> 200,
                users |-> listAllUsers(rows)]
  /\ UNCHANGED <<table, clock, sent, calls, env, client>>

\* user rows of the two historical shapes, and mixtures of them
UserRows ==
  { [BlankRow EXCEPT !.PK = pk, !.SK = sk, !.userId = id, !.username = un,
        !.name = nm, !.password = <<"pass">>] :
      pk \in {<<"USER">>, <<"USER", "99">>, <<"USER", "">>},
      sk \in {<<"PROFILE", "99">>, <<"USER", "7">>, <<"PROFILE", "7">>, <<"x">>},
      id \in {Undefined, <<"42">>},
      un \in {Undefined, <<"alice">>},
      nm \in {Undefined, <<"alice">>, <<"bob">>} }

\* requireAuth on a request of the client that logged in last: with the
\* token that login issued in its Authorization header, or without one
RequireAuth(presented) ==
  /\ \/ resp.op = "POST /api/login" /\ resp.status = 200
     \/ resp.op = "requireAuth"
  /\ LET token == resp.issued
         ok == presented /\ jwtVerify(token, authSecret, clock)
     IN resp' = [op |-> "requireAuth", status |-> IF ok THEN 200 ELSE 401,
                 issued |-> token, presented |-> presented, at |-> clock,
                 user |-> IF ok THEN token.payload ELSE Undefined]
  /\ UNCHANGED <<table, clock, sent, calls, env, client>>

\* an hour passes
Tick ==
  /\ clock < AuthClock
  /\ clock' = clock + 1
  /\ UNCHANGED <<table, sent, resp, calls, env, client>>

AuthRows ==
  {r \in UserRows : r.PK = <<"USER">> /\ r.SK = <<"USER", "7">>
                      /\ (r.username # Undefined \/ r.name # Undefined)}
InitAuth ==
  /\ table \in {{r} : r \in AuthRows}
  /\ clock = 0
  /\ sent = <<>>
  /\ calls = <<>>
  /\ resp = NoResp
  /\ env \in {[JWT_SECRET |-> Undefined], ConfiguredEnv}
  /\ active = <<>>
  /\ messages = <<>>
  /\ loads = <<>>
NextAuth ==
  \/ \E username \in {<<"alice">>, <<"bob">>}, password \in {<<"pass">>, <<"x">>} :
       PostLogin(username, password)
  \/ \E presented \in BOOLEAN : RequireAuth(presented)
  \/ Tick
SpecAuth == InitAuth /\ [][NextAuth]_vars

InitIdentity ==
  /\ table \in {{r} : r \in {r \in UserRows : r.username # Undefined \/ r.name # Undefined}}
  /\ clock = 0
  /\ sent = <<>>
  /\ calls = <<>>
  /\ NoClient
  /\ resp = NoResp

NextIdentity ==
  \/ \E username \in {<<"alice">>, <<"bob">>}, password \in {<<"pass">>, <<"x">>} :
       PostLogin(username, password)
  \/ ListUsers

SpecIdentity == InitIdentity /\ [][NextIdentity]_vars

(* ------------------------------- claims ------------------------------- *)
PostOps == {"POST /api/messages", "POST /api/messages/public"}

\* the limits a request can make effective
Limits == {effectiveLimit(r) : r \in LimitRequests}

SentKind(pk) == IF pk[1] = "CHANNEL" THEN "channel" ELSE "dm"

\* what List answers for the thread of a partition key
ListThread(pk, limit) == fetchMessages(table, SentKind(pk), pk, limit)

ListedAt(msgs, sk) == {i \in 1..Len(msgs) : msgs[i].id = sk}

SentMs(i) == Rank(sent[i].SK[2])

\* C1 as claimed: any three sends to one thread, made one after another, are
\* listed in the order in which they were sent, equal milliseconds included.
C1_ListedInSendOrder ==
  \A i, j, k \in 1..Len(sent) :
    (i < j /\ j < k /\ sent[i].PK = sent[j].PK /\ sent[j].PK = sent[k].PK) =>
      LET msgs == ListThread(sent[i].PK, effectiveLimit(NoLimit))
      IN \E a \in ListedAt(msgs, sent[i].SK), b \in ListedAt(msgs, sent[j].SK),
            c \in ListedAt(msgs, sent[k].SK) : a < b /\ b < c

\* C1 amended: of the sends to one thread, any two that List returns are in
\* send order when the later one has the later timestamp, and in the order
\* of their random suffixes when they share a millisecond.
C1_ListedInTimestampOrder ==
  \A i, j \in 1..Len(sent) :
    (i < j /\ sent[i].PK = sent[j].PK) =>
      \A limit \in Limits :
        LET msgs == ListThread(sent[i].PK, limit)
        IN \A a \in ListedAt(msgs, sent[i].SK), b \in ListedAt(msgs, sent[j].SK) :
             /\ SentMs(i) < SentMs(j) => a < b
             /\ SentMs(i) = SentMs(j) => (a < b <=> StrLess(sent[i].SK, sent[j].SK))

\* C1 witness: three sends to one thread in three different milliseconds,
\* all three listed, in send order.
C1_ThreeSendsListed ==
  /\ Len(sent) = 3
  /\ sent[1].PK = sent[2].PK /\ sent[2].PK = sent[3].PK
  /\ SentMs(1) < SentMs(2) /\ SentMs(2) < SentMs(3)
  /\ LET msgs == ListThread(sent[1].PK, effectiveLimit(NoLimit))
     IN \E a \in ListedAt(msgs, sent[1].SK), b \in ListedAt(msgs, sent[2].SK),
           c \in ListedAt(msgs, sent[3].SK) : a < b /\ b < c

\* C2: after a successful send the response has a non-empty id and
\* createdAt, and List of the thread, with any limit, ends with that message.
C2_SentIsListedLast ==
  (resp.op \in PostOps /\ resp.status = 201) =>
    LET m == resp.messages[1]
    IN /\ isNonEmpty(m.id) /\ isNonEmpty(m.createdAt)
       /\ \A limit \in Limits :
            LET msgs == fetchMessages(table, m.kind, resp.key, limit)
            IN Len(msgs) > 0 /\ msgs[Len(msgs)].id = m.id

\* C3: List of a channel with no Pattern A message row and with legacy rows
\* (PK MSG#CHANNEL#c, SK TS#..., author and text) returns exactly those legacy
\* messages, up to the limit.
C3_LegacyFallback ==
  (resp.op = "GET /api/messages" /\ resp.status = 200 /\ resp.kind = <<"channel">>) =>
    LET c == SliceAfter(resp.key, <<"CHANNEL">>)
        current == {r \in table : r.PK = <<"CHANNEL">> \o c /\ StartsWith(r.SK, <<"MSG">>)}
        legacy == {r \in table : /\ r.PK = <<"MSG", "CHANNEL">> \o c
                                 /\ StartsWith(r.SK, <<"TS">>)
                                 /\ ~falsy(r.author) /\ ~falsy(r.text)}
        msgs == resp.messages
    IN (current = {} /\ legacy # {}) =>
         /\ Len(msgs) = MinOf(resp.limit, Cardinality(legacy))
         /\ \A i \in 1..Len(msgs) :
              /\ msgs[i].kind = "channel" /\ msgs[i].channel = c
              /\ \E r \in legacy : /\ msgs[i].id = r.SK
                                   /\ msgs[i].author = r.author
                                   /\ msgs[i].text = r.text
         /\ \A i, j \in 1..Len(msgs) : msgs[i].id = msgs[j].id => i = j

\* C3 witness: two legacy rows of general, no Pattern A row, both listed.
C3_TwoLegacyListed ==
  /\ resp.op = "GET /api/messages" /\ resp.status = 200
  /\ resp.key = <<"CHANNEL", "general">>
  /\ {LegacyGeneralA, LegacyGeneralB} \subseteq table
  /\ ~\E r \in table : r.PK = <<"CHANNEL", "general">> /\ StartsWith(r.SK, <<"MSG">>)
  /\ Len(resp.messages) = 2

\* the channel rows of both types and the name each one describes
MetaRows == {r \in table : \/ r.PK = <<"CHANNEL">> /\ StartsWith(r.SK, <<"CHANNEL">>)
                           \/ StartsWith(r.PK, <<"CHANNEL">>) /\ r.SK = <<"META", "INFO">>}
MetaName(r) ==
  IF ~falsy(r.name) THEN r.name
  ELSE IF r.PK = <<"CHANNEL">> THEN SliceAfter(r.SK, <<"CHANNEL">>)
  ELSE SliceAfter(r.PK, <<"CHANNEL">>)
AnyRowLocked(n) == \E r \in MetaRows : MetaName(r) = n /\ r.isLocked = "true"

\* C4: the list with locked channels has one entry per channel name, locked
\* iff some row of that name is locked; the public list has no channel any
\* row of which is locked.
C4_LockOrMerge ==
  /\ (resp.op = "GET /api/channels/all" /\ resp.status = 200) =>
       /\ \A n \in {MetaName(r) : r \in MetaRows} \ {EmptyStr} :
            Cardinality({i \in 1..Len(resp.channels) : resp.channels[i].name = n}) = 1
       /\ \A i \in 1..Len(resp.channels) :
            /\ resp.channels[i].name \in {MetaName(r) : r \in MetaRows}
            /\ resp.channels[i].isLocked = AnyRowLocked(resp.channels[i].name)
  /\ (resp.op = "GET /api/channels" /\ resp.status = 200) =>
       \A i \in 1..Len(resp.channels) : ~AnyRowLocked(resp.channels[i].name)

\* C4 witness: ops has an unlocked and a locked row and is listed once, locked.
C4_OpsMergedLocked ==
  /\ resp.op = "GET /api/channels/all" /\ resp.status = 200
  /\ {MetaOpsA, MetaOpsB} \subseteq table
  /\ \E i \in 1..Len(resp.channels) :
       resp.channels[i] = [name |-> <<"ops">>, isLocked |-> TRUE]

\* C5: a request without a valid token reads no message of a locked channel
\* and stores no message in one.
C5_LockedChannelsNeedToken ==
  /\ ( /\ resp.op = "GET /api/messages" /\ resp.status = 200
       /\ resp.token = EmptyStr /\ resp.kind = <<"channel">>
       /\ AnyRowLocked(SliceAfter(resp.key, <<"CHANNEL">>)) )
     => resp.messages = <<>>
  /\ ( /\ resp.op \in PostOps /\ resp.status = 201
       /\ resp.token = EmptyStr /\ resp.kind = <<"channel">> )
     => ~AnyRowLocked(SliceAfter(resp.key, <<"CHANNEL">>))

\* C6: both buildDmId implementations return "DM#"+low+"#"+high for a pair of
\* usernames in either order, low <= high being the lower-cased names.
C6_DmIdCanonical ==
  resp.op = "buildDmId" =>
    \E low, high \in {lowerCaseUnits(resp.a), lowerCaseUnits(resp.b)} :
       /\ {low, high} = {lowerCaseUnits(resp.a), lowerCaseUnits(resp.b)}
       /\ ~unitsLess(high, low)
       /\ resp.server = dmTemplate(low, high)
       /\ resp.serverSwapped = dmTemplate(low, high)
       /\ resp.client = dmTemplate(low, high)
       /\ resp.clientSwapped = dmTemplate(low, high)

\* C6 witness: ("B", "a") gives "DM#a#b" in both implementations.
C6_UpperBLowerA ==
  /\ resp.op = "buildDmId" /\ resp.a = <<66>> /\ resp.b = <<97>>
  /\ resp.server = <<68, 77, 35, 97, 35, 98>>
  /\ resp.client = <<68, 77, 35, 97, 35, 98>>

\* C7: a DM message sent under DM#x#y is listed under DM#y#x as well.
C7_DmListedUnderSwappedId ==
  ( /\ resp.op = "POST /api/messages" /\ resp.status = 201
    /\ resp.kind = <<"dm">> /\ Len(resp.key) = 3 ) =>
    LET swapped == <<resp.key[1], resp.key[3], resp.key[2]>>
    IN ListedAt(fetchMessages(table, "dm", swapped, effectiveLimit(NoLimit)),
                resp.messages[1].id) # {}

\* the precedence C8 states: userId, else PK after USER#, else SK after
\* USER#, else the username
PrecedenceUserId(r) ==
  IF r.userId # Undefined THEN r.userId
  ELSE IF StartsWith(r.PK, <<"USER">>) THEN SliceAfter(r.PK, <<"USER">>)
  ELSE IF StartsWith(r.SK, <<"USER">>) THEN SliceAfter(r.SK, <<"USER">>)
  ELSE IF r.username # Undefined THEN r.username ELSE r.name

\* C8: the userId of a user row, in the login token and in the user list,
\* follows that precedence.
C8_IdentityPrecedence ==
  \A r \in table :
    /\ (resp.op = "POST /api/login" /\ resp.status = 200) =>
         resp.sub = PrecedenceUserId(r)
    /\ resp.op = "listAllUsers" =>
         \A i \in 1..Len(resp.users) : resp.users[i].userId = PrecedenceUserId(r)

\* C9: a send whose put met an existing key put a second time.
C9_ConflictRetriedOnce ==
  (resp.op \in PostOps /\ resp.conflict) => resp.puts = 2

\* the request clamped into 1..200, 50 when it is absent or not a number
ClampedLimit(requested) ==
  IF requested.numeric
  THEN MaxOf(LimitMin, MinOf(LimitMax, requested.n))
  ELSE LimitDefault

\* C10: List uses the requested limit clamped into 1..200 (50 when absent)
\* and returns no more messages than that.
C10_LimitClamped ==
  (resp.op = "GET /api/messages" /\ resp.status = 200) =>
    /\ resp.limit = ClampedLimit(resp.requested)
    /\ Len(resp.messages) <= resp.limit

\* C11: List scans the table if and only if the Pattern A query returned no
\* row; when the query returned a row, valid or not, nothing is scanned and
\* every message of the answer comes from the rows of the query.
C11_ScanIffQueryEmpty ==
  (resp.op = "GET /api/messages" /\ resp.status = 200) =>
    LET rows == query(table, resp.key, <<"MSG">>, resp.limit)
    IN /\ resp.scanned <=> rows = <<>>
       /\ rows # <<>> =>
            \A i \in 1..Len(resp.messages) :
              \E j \in 1..Len(rows) : mapItemToMessage(rows[j]) = <<resp.messages[i]>>

NonDecreasing(msgs) ==
  \A i, j \in 1..Len(msgs) : i < j => ~StrLess(msgs[j].createdAt, msgs[i].createdAt)

C13_NoDmRowsNoThreads ==
  (resp.op = "GET /api/dms" /\ resp.status = 200 /\ ~\E r \in table : isDmRow(r)) =>
    resp.dms = <<>>

\* a row that describes channel c or holds a message of it
AboutChannel(r, c) ==
  \/ r.PK = <<"CHANNEL">> \o c
  \/ r.PK = <<"MSG", "CHANNEL">> \o c
  \/ r.PK = <<"CHANNEL">> /\ r.SK = <<"CHANNEL">> \o c
  \/ r.name = c

\* C14: after a successful send to a channel of which the table held no row
\* before, the list of all channels has an entry of that name.
C14_FirstMessageCreatesChannel ==
  ( /\ resp.op \in PostOps /\ resp.status = 201 /\ resp.kind = <<"channel">>
    /\ \A r \in table :
         \/ r.PK = resp.key /\ r.SK = resp.messages[1].id
         \/ ~AboutChannel(r, SliceAfter(resp.key, <<"CHANNEL">>)) )
  => \A rows \in scanOrders(ChannelItems(table)) :
       LET channels == scanChannelMetas(rows, TRUE)
       IN \E i \in 1..Len(channels) :
            channels[i].name = SliceAfter(resp.key, <<"CHANNEL">>)

\* the stored messages of a thread and the id List gives each of them
MessageRows(pk) == {r \in table : r.PK = pk /\ StartsWith(r.SK, <<"MSG">>)}
MessageId(r) == OrElse(readStr(r, "id"), r.SK)
SentRows == {r \in table : \E i \in 1..Len(sent) : sent[i].PK = r.PK /\ sent[i].SK = r.SK}

\* C15: no two stored messages of one thread have the same messageId, and
\* among the messages Send wrote to a thread the sort key order agrees with
\* the createdAt order.
C15_UniqueIdsAndKeyOrder ==
  /\ \A r1, r2 \in table :
       (r1 # r2 /\ r1.PK = r2.PK /\ r1 \in MessageRows(r1.PK) /\ r2 \in MessageRows(r1.PK))
         => MessageId(r1) # MessageId(r2)
  /\ \A r1, r2 \in SentRows :
       (r1.PK = r2.PK /\ StrLess(r1.SK, r2.SK)) => ~StrLess(r2.createdAt, r1.createdAt)

\* C15 witness: two calls in flight at once stored their messages in one
\* thread, the one with the later timestamp first.
C15_TwoStoredOutOfOrder ==
  /\ Len(sent) = 2 /\ sent[1].PK = sent[2].PK
  /\ StrLess(sent[2].SK, sent[1].SK)
  /\ \A c \in 1..ConcurrentCalls : calls[c].pc = "done"

\* C18: two concurrent sends to one thread both succeed, with distinct sort
\* keys, and both messages are in the table afterwards.
C18_ConcurrentSendsBothStored ==
  \A c1, c2 \in DOMAIN calls :
    ( /\ c1 # c2 /\ calls[c1].pc = "done" /\ calls[c2].pc = "done"
      /\ calls[c1].item.PK = calls[c2].item.PK )
    => /\ calls[c1].status = 201 /\ calls[c2].status = 201
       /\ calls[c1].item.SK # calls[c2].item.SK
       /\ {calls[c1].item, calls[c2].item} \subseteq table

\* C16: a message row Send has written stays in the table, with every
\* attribute as written, through every later step of the message routes.
C16_SentRowsKept == [][\A r \in SentRows : r \in table']_vars

\* C19: classifying one row twice gives the same result both times, in
\* either router, and leaves the row as it was.
C19_ClassifyTwiceSame ==
  resp.op = "mapItemToMessage" =>
    /\ resp.first = resp.second
    /\ resp.olderFirst = resp.olderSecond
    /\ resp.row \in table

ReadOps ==
  {"GET /api/messages", "GET /api/channels", "GET /api/channels/all",
   "GET /api/dms"}

\* C17: a step that answers a read (List on either path, ListChannels,
\* ListDmThreadsForUser) leaves every row of the table as it was.
C17_ReadsLeaveTable == [][resp'.op \in ReadOps => table' = table]_vars

\* a List answered from the scan with a legacy row that is still in the table
C17_LegacyReadStillLegacy ==
  /\ resp.op = "GET /api/messages"
  /\ resp.status = 200
  /\ resp.scanned
  /\ Len(resp.messages) > 0
  /\ LegacyGeneralA \in table

\* the body of a Send lacks its text (absent, empty or blank) or the address
\* its kind needs
MalformedSend(req, text) ==
  \/ text \in {Undefined, EmptyStr, <<" ">>}
  \/ /\ req.kind \in {<<"channel">>, <<"CHANNEL">>}
     /\ req.channel \in {Undefined, EmptyStr}
  \/ /\ req.kind = <<"dm">>
     /\ req.dmId \in {Undefined, EmptyStr}

\* C20: a Send (a POST of an authenticated user, or a public POST) whose
\* text is missing or blank, or whose channel name or dm id is missing, is
\* answered 400 and puts nothing: the table is unchanged.
C20_MalformedSendRejected ==
  [][ ( /\ resp'.op \in PostOps
        /\ (resp'.op = "POST /api/messages" => resp'.token # EmptyStr)
        /\ MalformedSend(resp'.req, resp'.text) )
      => (resp'.status = 400 /\ resp'.puts = 0 /\ table' = table) ]_vars

\* a blank text rejected after a message was stored
C20_BlankTextRejected ==
  /\ resp.op = "POST /api/messages"
  /\ resp.token # EmptyStr
  /\ resp.req = ChannelRequest(<<"channel">>, <<"general">>)
  /\ resp.text = <<" ">>
  /\ resp.status = 400
  /\ Len(sent) > 0

\* the stored rows of the thread a List answered, on the path it took
ThreadRowsRead ==
  IF resp.scanned
  THEN {r \in table : r.PK = expectedPkB(resp.kind[1], resp.key)}
  ELSE {r \in table : r.PK = resp.key /\ StartsWith(r.SK, <<"MSG">>)}

\* C21: on the query path and on the scan path alike, a row of the listed
\* thread whose text is in message, or whose author is in sender, username
\* or user, is returned with that text and author (limit permitting).
C21_FieldFallbackOnBothPaths ==
  (resp.op = "GET /api/messages" /\ resp.status = 200
     /\ Cardinality(ThreadRowsRead) <= resp.limit) =>
    \A r \in ThreadRowsRead :
      mapItemToMessage(r) # <<>> =>
        \E i \in 1..Len(resp.messages) :
          /\ resp.messages[i].text = readMessageText(r)
          /\ resp.messages[i].author = readAuthor(r)
          /\ resp.messages[i].id = OrElse(readStr(r, "id"), r.SK)

\* a row of the thread read that has no text, no author or no timestamp
\* after fallback
LacksField(r) ==
  \/ ~isNonEmpty(readMessageText(r))
  \/ ~isNonEmpty(readAuthor(r))
  \/ ~isNonEmpty(IF readStr(r, "createdAt") = EmptyStr
                 THEN parseFromKey(r.SK) ELSE readStr(r, "createdAt"))

\* C22: every message a List returns has a non-empty author, text and
\* createdAt; a row of the thread lacking one of them is not among the
\* messages, and the request is still answered 200.
C22_ListedMessagesComplete ==
  (resp.op = "GET /api/messages" /\ resp.status = 200) =>
    /\ \A i \in 1..Len(resp.messages) :
         /\ isNonEmpty(resp.messages[i].author)
         /\ isNonEmpty(resp.messages[i].text)
         /\ isNonEmpty(resp.messages[i].createdAt)
    /\ \A r \in ThreadRowsRead :
         LacksField(r) =>
           \A i \in 1..Len(resp.messages) :
             resp.messages[i].id # OrElse(readStr(r, "id"), r.SK)

\* a List answered 200 with one message while a row without text is stored
\* in the same partition
C22_DeficientRowDropped ==
  /\ resp.op = "GET /api/messages"
  /\ resp.status = 200
  /\ resp.key = <<"CHANNEL", "general">>
  /\ {CurrentGeneral, CurrentGeneralNoText} \subseteq table
  /\ Len(resp.messages) = 1
  /\ resp.limit >= 2

\* the DM threads stored in the table, as scanAllDmMetas reads them
StoredDmThreads == {dmThread(r) : r \in DmItems(table)}

\* u and another user are the two parties of thread t; a thread id carries
\* the usernames in lower case
ThreadOfUser(t, u) ==
  /\ \E i \in 1..Len(t.members) : toLowerCase(t.members[i]) = toLowerCase(u)
  /\ \E i \in 1..Len(t.members) : toLowerCase(t.members[i]) # toLowerCase(u)

\* C23: every DM entry listed for u is a stored thread whose members
\* contain u and whose reported other username is a member different from
\* u; and every stored thread between u and another user is listed for u.
C23_DmListIsUsersThreads ==
  (resp.op = "GET /api/dms" /\ resp.status = 200) =>
    /\ \A i \in 1..Len(resp.dms) :
         \E t \in StoredDmThreads :
           /\ t.id = resp.dms[i].dmId
           /\ includes(t.members, resp.token)
           /\ includes(t.members, resp.dms[i].username)
           /\ resp.dms[i].username # resp.token
    /\ \A t \in StoredDmThreads :
         ThreadOfUser(t, resp.token) =>
           \E i \in 1..Len(resp.dms) : resp.dms[i].dmId = t.id

\* C24: the comparison of the DM sort is transitive over the stored threads,
\* and the list GET /api/dms/all returns is the same for every order in
\* which the scan can deliver the rows.
C24_DmOrderDeterministic ==
  /\ \A a \in StoredDmThreads, b \in StoredDmThreads, c \in StoredDmThreads :
       (dmBefore(a, b) /\ dmBefore(b, c)) => dmBefore(a, c)
  /\ (resp.op = "GET /api/dms/all" /\ resp.status = 200) =>
       \A rows \in scanOrders(DmItems(table)) : scanAllDmMetas(rows) = resp.dms

PublicOps == {"POST /api/messages/public", "older POST /api/messages/public"}

\* a public request a guest may make: kind channel, channel general, a text
GuestMaySend(req, text) ==
  /\ req.kind \in {<<"channel">>, <<"CHANNEL">>}
  /\ req.channel = <<"general">>
  /\ text \notin {Undefined, EmptyStr, <<" ">>}

\* C25: a row written through the public endpoint has kind channel, channel
\* general and author Guest; every other public request is rejected and the
\* table is unchanged.
C25_GuestsOnlyGeneral ==
  [][ resp'.op \in PublicOps =>
        IF resp'.status = 201
        THEN /\ GuestMaySend(resp'.req, resp'.text)
             /\ \E r \in table' :
                  /\ [PK |-> r.PK, SK |-> r.SK] = sent'[Len(sent')]
                  /\ r.kind = <<"channel">>
                  /\ r.channel = <<"general">>
                  /\ r.author = <<"Guest">>
        ELSE table' = table ]_vars

\* what a List of the thread with the default limit returns on table tbl
ListedIn(tbl, kind, key) ==
  LET msgs == fetchMessages(tbl, kind, key, LimitDefault)
  IN {msgs[i] : i \in 1..Len(msgs)}

\* C26: every message a List of a thread returns before a successful Send
\* to that thread is returned by a List of it after the Send (the thread
\* holding fewer messages than the limit).
C26_ListMonotonicUnderSend ==
  [][ (resp'.op \in PostOps /\ resp'.status = 201) =>
        ListedIn(table, resp'.kind[1], resp'.key)
          \subseteq ListedIn(table', resp'.kind[1], resp'.key) ]_vars

\* C26 as amended: when a List of the thread is answered from the query
\* (the thread holds a valid current-convention message), every message it
\* returns is still returned after a successful Send to the thread.
C26_QueryListMonotonic ==
  [][ ( /\ resp'.op \in PostOps
        /\ resp'.status = 201
        /\ ~scanIssued(table, resp'.key, LimitDefault) ) =>
        ListedIn(table, resp'.kind[1], resp'.key)
          \subseteq ListedIn(table', resp'.kind[1], resp'.key) ]_vars

\* a Send to general stored next to an earlier current-convention message,
\* both listed
C26_SentNextToEarlier ==
  /\ resp.op \in PostOps
  /\ resp.status = 201
  /\ resp.key = <<"CHANNEL", "general">>
  /\ CurrentGeneral \in table
  /\ Cardinality(ListedIn(table, "channel", resp.key)) = 2

\* C27: requireAuth accepts the token of a successful login as long as it
\* has not expired, whether or not JWT_SECRET is set, and exposes the
\* username of the user row that logged in.
C27_LoginTokenAccepted ==
  (resp.op = "requireAuth" /\ resp.presented /\ resp.at < resp.issued.exp) =>
    /\ resp.status = 200
    /\ \E r \in table :
         resp.user.username = IF r.username # Undefined THEN r.username ELSE r.name

\* C28: the userId a successful login signs into the token is the userId
\* listAllUsers derives for the row that logged in (the one /api/me and
\* deleteUserById go by).
C28_ResolversAgree ==
  (resp.op = "POST /api/login" /\ resp.status = 200) =>
    \A rows \in scanOrders({project(r, UserScanAttrs) : r \in table}) :
      LET users == listAllUsers(rows)
      IN \A i \in 1..Len(users) : users[i].userId = resp.sub

\* username u is one of the two names in thread id DM#a#b
DmParty(u, dmId) ==
  /\ Len(u) = 1
  /\ Len(dmId) = 3
  /\ toLowerCase(u)[1] \in {dmId[2], dmId[3]}

\* C29: the author of every DM message Send stored is one of the two
\* usernames of its thread id, and the messages of a DM thread are returned
\* only to a request authenticated as one of the two.
C29_DmPrivate ==
  /\ \A r \in SentRows : r.kind = <<"dm">> => DmParty(r.author, r.PK)
  /\ ( /\ resp.op = "GET /api/messages"
       /\ resp.status = 200
       /\ resp.kind = <<"dm">>
       /\ Len(resp.messages) > 0 ) => DmParty(resp.token, resp.key)

\* the run of loadMessages for the selected chat has finished
LoadCompleted == Len(loads) > 0 /\ loads[Len(loads)].pc = "done"

\* message m of the user is on display in list
ShownIn(m, list) ==
  \E j \in 1..Len(list) :
    list[j].sender = m.sender /\ list[j].text = m.text /\ list[j].of = m.of

\* C30: once the load of the selected chat has completed, every displayed
\* message is of that chat; and while the chat stays selected, a message the
\* user sent to it stays on display, whatever load response arrives.
C30_ChatScreenConsistent ==
  [][ /\ (active' # <<>> /\ LoadCompleted') =>
           \A j \in 1..Len(messages') : messages'[j].of = active'
      /\ active' = active =>
           \A j \in 1..Len(messages) :
             (messages[j].local /\ messages[j].of = active) =>
               ShownIn(messages[j], messages') ]_vars

====
